---- MODULE Spec2Model ----
(***************************************************************************)
(* Phase 3 of the music-video pipeline (src/phase3_worker.py): the Celery  *)
(* task process_video_generation, the RunwareService image batch client    *)
(* and VideoCreator.create_video, as one state machine.                    *)
(*                                                                         *)
(* One run of the task for one session is modelled.  Each action is one    *)
(* step of the code; pc is the position of the task.  Calls to the world   *)
(* outside the process (artifact store, audio decoder, image provider,     *)
(* HTTP downloads, encoder, notification channel) may fail, and the model  *)
(* chooses their outcome nondeterministically.  The job-store commands     *)
(* hset/hget/get are taken to be available (spec section 6), which is      *)
(* also what the except handler of the task relies on.                     *)
(*                                                                         *)
(* Phase 2 (src/phase2_worker.py), which stores the songs and enqueues the *)
(* phase 3 task, and the preference validators (src/utils/validators.py,   *)
(* src/app.py) follow, each with a specification of its own.               *)
(***************************************************************************)
EXTENDS Integers, Sequences, FiniteSets, TLC

(***************************************************************************)
(* Bounds of the model.                                                    *)
(***************************************************************************)
MaxTracks == 2          \* at most this many tracks in phase2_results
MaxPrompts == 3         \* batches up to this size: every failure subset and
                        \* every completion order; larger batches: the
                        \* representative failure sets, answered in order

(***************************************************************************)
(* Program constants.                                                      *)
(***************************************************************************)
MinViableImages == 4    \* phase3_worker.py:277
MinImages == 8          \* phase3_worker.py:238
BeatsPerImage == 4      \* phase3_worker.py:237
HttpOk == 200           \* phase3_worker.py:135

None == 0               \* Python None in a list of image URLs

(***************************************************************************)
(* Small helpers.                                                          *)
(***************************************************************************)
Max(a, b) == IF a >= b THEN a ELSE b

Range(s) == {s[k] : k \in 1..Len(s)}

RECURSIVE SumSeq(_)
SumSeq(s) == IF s = <<>> THEN 0 ELSE Head(s) + SumSeq(Tail(s))

\* [url for url in image_urls if url is not None]
RECURSIVE NotNone(_)
NotNone(urls) ==
    IF urls = <<>> THEN <<>>
    ELSE IF Head(urls) # None THEN <<Head(urls)>> \o NotNone(Tail(urls))
         ELSE NotNone(Tail(urls))

(***************************************************************************)
(* Inputs: the audio of a track, as AudioAnalyzer.analyze_audio reports    *)
(* it (beat times and duration in tenths of a second).                     *)
(***************************************************************************)
Timelines ==
    { [beat_times |-> <<>>, duration |-> 200, tempo |-> 0],
      [beat_times |-> [k \in 1..36 |-> 5 * (k - 1)], duration |-> 180, tempo |-> 120] }

\* The phase2_results documents that may be stored in the session hash:
\* a JSON object with one list under the key "music_files" or "songs".
TrackLists == UNION {[1..n -> Timelines] : n \in 0..MaxTracks}

Phase2Docs == {[key |-> k, items |-> t] : k \in {"music_files", "songs"}, t \in TrackLists}

\* The representative failure sets of a large batch of n elements.
FailSets(n) ==
    IF n <= MaxPrompts THEN SUBSET (1..n)
    ELSE { {}, {1}, 1..(n - MinViableImages), 1..(n - MinViableImages + 1), 1..n }

VARIABLES
    pc,                 \* position of the task
    session,            \* the redis hash session:{session_id}
    preferences,        \* <<>> or <<prefs>>: the key preferences:{session_id}
    api_key,            \* is RUNWARE_API_KEY set
    exc,                \* message of the exception being propagated, or "none"
    music_files,        \* process_video_generation: music_files
    i,                  \* loop index of the track loop (0-based)
    video_results,      \* process_video_generation: video_results
    files,              \* temporary files that exist on disk
    audio_analysis,     \* <<>> or <<analysis of the current track>>
    image_prompts,      \* prompts of the current track (scene numbers)
    runware,            \* RunwareService.runware: "none", "connected", "disconnected"
    loop,               \* the event loop of the current track: "none", "open", "closed"
    provider,           \* prompts the provider will fail on (environment)
    requests,           \* per prompt: "pending" | "ok" | "fail" | "cancelled"
    image_urls,         \* result of generate_images_batch
    valid_image_urls,   \* the URLs that are not None
    webfail,            \* positions of valid URLs whose download is not 200 (environment)
    k,                  \* create_video: index of the download loop
    temp_image_files,   \* create_video: temp_image_files
    clips,              \* create_video: clips that are open
    image_duration,     \* create_video: image_duration as <<numerator, denominator>>
    output,             \* the file at output_path: "absent", "empty", "partial", "written"
    placed,             \* number of images in the video written for the current track
    uploaded,           \* videos uploaded to the bucket
    published,          \* events published on phase3_complete
    p2pc,               \* phase 2: position of process_music_generation or of
                        \* MusicGenerationService.generate_music ("idle": not running)
    p2status,           \* the key phase2_status:{session_id}
    p2results,          \* the key phase2_results:{session_id}: <<>> or <<document>>
    retries,            \* self.request.retries of the phase 2 task
    apibox_key,         \* is APIBOX_KEY set
    lyria,              \* use_lyria, LyriaService.credentials, and what Lyria did
    caller,             \* who called SunoService.generate_music: "task" or "service"
    response,           \* answer of the Suno API to the generate request
    found,              \* songs found in that answer
    music_result,       \* <<>> or <<result of generate_music>>
    stored_songs,       \* process_music_generation: stored_songs
    song_index,         \* process_music_generation: i of the storing loop
    gcs_paths,          \* positions of the songs that were given a gcs_path
    triggered,          \* number of phase 3 tasks enqueued
    returned,           \* how the last run of the phase 2 task ended
    vdata,              \* <<>> or <<preference data given to a validator>>
    vresult             \* <<>> or <<result of validate_preferences>>

vars == <<pc, session, preferences, api_key, exc, music_files, i, video_results,
          files, audio_analysis, image_prompts, runware, loop, provider, requests,
          image_urls, valid_image_urls, webfail, k, temp_image_files, clips,
          image_duration, output, placed, uploaded, published,
          p2pc, p2status, p2results, retries, apibox_key, lyria, caller,
          response, found, music_result, stored_songs, song_index, gcs_paths, triggered,
          returned, vdata, vresult>>

\* Phase 2 (src/phase2_worker.py) and the validators: the phase 3 task
\* writes none of these.
phase2Stores == <<p2status, p2results, triggered>>
phase2Env == <<apibox_key, lyria>>
sunoVars == <<caller, response, found, music_result>>
phase2Locals == <<retries, stored_songs, song_index, gcs_paths, returned>>
phase2Vars == <<p2pc, phase2Stores, phase2Env, sunoVars, phase2Locals>>
validatorVars == <<vdata, vresult>>

\* What the phase 3 task only reads or never touches, and what it has sent out.
storeVars == <<preferences, api_key, phase2Vars, validatorVars>>
outVars == <<uploaded, published>>
\* Locals of process_video_generation.
jobVars == <<music_files, i, video_results>>
trackVars == <<files, audio_analysis, image_prompts, valid_image_urls>>
\* Variables of the image batch.
batchVars == <<runware, loop, provider, requests, image_urls>>
\* Variables of create_video.
videoVars == <<webfail, k, temp_image_files, clips, image_duration, output, placed>>

NoField == <<>>

FreshSession(doc) ==
    [phase3_status |-> "none", phase3_progress |-> -1, phase3_error |-> "none",
     phase3_results |-> NoField, phase2_results |-> doc]

Locals ==
    /\ exc = "none"
    /\ music_files = <<>>
    /\ i = 0
    /\ video_results = <<>>
    /\ files = {}
    /\ audio_analysis = <<>>
    /\ image_prompts = <<>>
    /\ runware = "none"
    /\ loop = "none"
    /\ provider = {}
    /\ requests = <<>>
    /\ image_urls = <<>>
    /\ valid_image_urls = <<>>
    /\ webfail = {}
    /\ k = 0
    /\ temp_image_files = <<>>
    /\ clips = {}
    /\ image_duration = <<0, 1>>
    /\ output = "absent"
    /\ placed = 0
    /\ uploaded = <<>>
    /\ published = <<>>

\* No-one has called the music generation service.
SunoIdle ==
    /\ caller = "none"
    /\ response = "none"
    /\ found = <<>>
    /\ music_result = <<>>

\* Phase 2 is over (or was never run) when the phase 3 task is looked at alone.
Phase2Idle ==
    /\ p2pc = "idle"
    /\ p2status = "none"
    /\ p2results = <<>>
    /\ retries = 0
    /\ apibox_key = TRUE
    /\ lyria = [use |-> FALSE, credentials |-> FALSE, state |-> "unused"]
    /\ SunoIdle
    /\ stored_songs = <<>>
    /\ song_index = 0
    /\ gcs_paths = {}
    /\ triggered = 0
    /\ returned = "none"

ValidatorIdle == vdata = <<>> /\ vresult = <<>>

Init ==
    /\ pc = "start"
    /\ session \in {FreshSession(d) : d \in {NoField} \cup {<<doc>> : doc \in Phase2Docs}}
    /\ preferences \in {<<>>, <<"cinematic">>}
    /\ api_key \in BOOLEAN
    /\ Locals
    /\ Phase2Idle
    /\ ValidatorIdle

(***************************************************************************)
(* Exceptions.  Inside the try of the track body (lines 232-311) an        *)
(* exception first runs the finally clause; everywhere in the task it      *)
(* ends in the except clause of line 333.                                  *)
(***************************************************************************)
RaiseInTrack(msg) == exc' = msg /\ pc' = "finally"

RaiseInTask(msg) == exc' = msg /\ pc' = "except"

HSet(field, value) == session' = [session EXCEPT ![field] = value]

(***************************************************************************)
(* process_video_generation, lines 197-215: status, inputs.                *)
(***************************************************************************)
SetStatusProcessing ==
    /\ pc = "start"
    /\ HSet("phase3_status", "processing")
    /\ pc' = "set_progress_0"
    /\ UNCHANGED <<exc, storeVars, outVars, jobVars, trackVars, batchVars, videoVars>>

SetProgressZero ==
    /\ pc = "set_progress_0"
    /\ HSet("phase3_progress", 0)
    /\ pc' = "get_preferences"
    /\ UNCHANGED <<exc, storeVars, outVars, jobVars, trackVars, batchVars, videoVars>>

\* session_manager.get_preferences: None when the key is absent.
get_preferences_unchecked ==
    /\ pc = "get_preferences"
    /\ pc' = "get_phase2_results"
    /\ UNCHANGED <<exc, session, storeVars, outVars, jobVars, trackVars, batchVars, videoVars>>

GetPreferences ==
    /\ pc = "get_preferences"
    /\ IF preferences = <<>>
       THEN RaiseInTask("No preferences found for session")
       ELSE pc' = "get_phase2_results" /\ UNCHANGED exc
    /\ UNCHANGED <<session, storeVars, outVars, jobVars, trackVars, batchVars, videoVars>>

\* phase2_data.get('music_files', [])
MusicFilesOf(doc) == IF doc.key = "music_files" THEN doc.items ELSE <<>>

GetPhase2Results ==
    /\ pc = "get_phase2_results"
    /\ IF session.phase2_results = NoField
       THEN /\ RaiseInTask("No Phase 2 results found")
            /\ UNCHANGED music_files
       ELSE /\ music_files' = MusicFilesOf(session.phase2_results[1])
            /\ IF music_files' = <<>>
               THEN RaiseInTask("No music files found from Phase 2")
               ELSE pc' = "loop" /\ UNCHANGED exc
    /\ i' = 0
    /\ video_results' = <<>>
    /\ UNCHANGED <<session, storeVars, outVars, trackVars, batchVars, videoVars>>

(***************************************************************************)
(* The track loop, lines 220-255.                                          *)
(***************************************************************************)
\* int((i / len(music_files)) * 100)
progress_after_track(idx, n) == ((idx + 1) * 100) \div n

Progress(idx, n) == (idx * 100) \div n

LoopHead ==
    /\ pc = "loop"
    /\ IF i < Len(music_files)
       THEN /\ HSet("phase3_progress", Progress(i, Len(music_files)))
            /\ pc' = "download_audio"
       ELSE /\ pc' = "store_results"
            /\ UNCHANGED session
    /\ UNCHANGED <<exc, storeVars, outVars, jobVars, trackVars, batchVars, videoVars>>

AudioFile == <<"audio", 0>>

ImageFile(n) == <<"image", n>>

\* Lines 228-230, before the try: a failed download is not followed by the
\* finally clause.  Whether the client removes the file it failed to fill is
\* left open.
DownloadAudio ==
    /\ pc = "download_audio"
    /\ \/ /\ files' = files \cup {AudioFile}
          /\ pc' = "analyze_audio"
          /\ UNCHANGED exc
       \/ /\ files' \in {files, files \cup {AudioFile}}
          /\ RaiseInTask("audio download failed")
    /\ UNCHANGED <<audio_analysis, image_prompts, valid_image_urls>>
    /\ UNCHANGED <<session, storeVars, outVars, jobVars, batchVars, videoVars>>

\* AudioAnalyzer.analyze_audio: the analysis of the track's audio, or an error.
AnalyzeAudio ==
    /\ pc = "analyze_audio"
    /\ \/ /\ audio_analysis' = <<music_files[i + 1]>>
          /\ pc' = "build_prompts"
          /\ UNCHANGED exc
       \/ /\ RaiseInTrack("audio analysis failed")
          /\ UNCHANGED audio_analysis
    /\ UNCHANGED <<files, image_prompts, valid_image_urls>>
    /\ UNCHANGED <<session, storeVars, outVars, jobVars, batchVars, videoVars>>

\* Lines 237-238.
NumImages(total_beats) == Max(MinImages, total_beats \div BeatsPerImage)

\* Lines 244-255: prompt j is identified by its scene number j.
BuildPrompts ==
    /\ pc = "build_prompts"
    /\ image_prompts' = [j \in 1..NumImages(Len(audio_analysis[1].beat_times)) |-> j]
    /\ pc' = "new_service"
    /\ UNCHANGED <<files, audio_analysis, valid_image_urls>>
    /\ UNCHANGED <<exc, session, storeVars, outVars, jobVars, batchVars, videoVars>>

(***************************************************************************)
(* Image generation, lines 257-272, with RunwareService (lines 34-95).     *)
(***************************************************************************)
\* RunwareService.__init__
new_service_without_check ==
    /\ pc = "new_service"
    /\ runware' = "none"
    /\ pc' = "new_event_loop"
    /\ UNCHANGED <<exc, loop, provider, requests, image_urls>>
    /\ UNCHANGED <<session, storeVars, outVars, jobVars, trackVars, videoVars>>

NewRunwareService ==
    /\ pc = "new_service"
    /\ IF api_key
       THEN /\ runware' = "none"
            /\ pc' = "new_event_loop"
            /\ UNCHANGED exc
       ELSE /\ RaiseInTrack("RUNWARE_API_KEY environment variable is required")
            /\ UNCHANGED runware
    /\ UNCHANGED <<loop, provider, requests, image_urls>>
    /\ UNCHANGED <<session, storeVars, outVars, jobVars, trackVars, videoVars>>

\* Lines 269-271: loop.run_until_complete(generate_images()) starts.
NewEventLoop ==
    /\ pc = "new_event_loop"
    /\ loop' = "open"
    /\ pc' = "gi_connect"
    /\ UNCHANGED <<runware, provider, requests, image_urls>>
    /\ UNCHANGED <<exc, session, storeVars, outVars, jobVars, trackVars, videoVars>>

\* RunwareService.connect, called at line 261 before the try of
\* generate_images.  The client either establishes the connection or raises
\* without one; self.runware is assigned in both cases.
Connect ==
    /\ pc = "gi_connect"
    /\ \/ /\ runware' = "connected"
          /\ pc' = "gi_batch"
          /\ UNCHANGED exc
       \/ /\ runware' = "created"
          /\ RaiseInTrack("connection to the image provider failed")
    /\ UNCHANGED <<loop, provider, requests, image_urls>>
    /\ UNCHANGED <<session, storeVars, outVars, jobVars, trackVars, videoVars>>

\* generate_images_batch, lines 75-81: one coroutine per prompt, all handed
\* to asyncio.gather.  The environment decides which requests will fail.
StartBatch ==
    /\ pc = "gi_batch"
    /\ requests' = [j \in 1..Len(image_prompts) |-> "pending"]
    /\ provider' \in FailSets(Len(image_prompts))
    /\ pc' = "gather"
    /\ UNCHANGED <<runware, loop, image_urls>>
    /\ UNCHANGED <<exc, session, storeVars, outVars, jobVars, trackVars, videoVars>>

\* generate_image, lines 53-71: the request for prompt j ends, with the URL
\* of its image or with an exception.
GenerateImage(j) ==
    /\ pc = "gather"
    /\ j \in DOMAIN requests
    /\ requests[j] = "pending"
    /\ Len(requests) <= MaxPrompts \/ \A h \in 1..(j - 1) : requests[h] # "pending"
    /\ requests' = [requests EXCEPT ![j] = IF j \in provider THEN "fail" ELSE "ok"]
    /\ UNCHANGED <<pc, runware, loop, provider, image_urls>>
    /\ UNCHANGED <<exc, session, storeVars, outVars, jobVars, trackVars, videoVars>>

Exception == -1         \* an exception object in the results of gather

\* asyncio.gather(*tasks, return_exceptions=True), line 81: returns once every
\* task has ended, and never raises for a task that did; result j is the URL
\* of prompt j (modelled as j) or the exception.
gather_fail_fast(reqs) ==
    [ready |-> \/ \E j \in DOMAIN reqs : reqs[j] = "fail"
               \/ \A h \in DOMAIN reqs : reqs[h] # "pending",
     raises |-> \E j \in DOMAIN reqs : reqs[j] = "fail",
     results |-> [j \in DOMAIN reqs |-> IF reqs[j] = "ok" THEN j ELSE Exception]]

gather(reqs) ==
    [ready |-> \A j \in DOMAIN reqs : reqs[j] # "pending",
     raises |-> FALSE,
     results |-> [j \in DOMAIN reqs |-> IF reqs[j] = "ok" THEN j ELSE Exception]]

\* Lines 82-92: image_urls from the results of gather.
RECURSIVE collect_skipping_failures(_)
collect_skipping_failures(results) ==
    IF results = <<>> THEN <<>>
    ELSE IF Head(results) = Exception THEN collect_skipping_failures(Tail(results))
         ELSE <<Head(results)>> \o collect_skipping_failures(Tail(results))

CollectUrls(results) ==
    [j \in 1..Len(results) |-> IF results[j] = Exception THEN None ELSE results[j]]

\* Lines 81-95: gather returns (or raises, lines 93-95).
GatherReturns ==
    /\ pc = "gather"
    /\ gather(requests).ready
    /\ IF gather(requests).raises
       THEN /\ exc' = "image request failed"
            /\ UNCHANGED image_urls
       ELSE /\ image_urls' = CollectUrls(gather(requests).results)
            /\ UNCHANGED exc
    /\ pc' = "gi_finally"
    /\ UNCHANGED <<runware, loop, provider, requests>>
    /\ UNCHANGED <<session, storeVars, outVars, jobVars, trackVars, videoVars>>

\* RunwareService.disconnect, lines 47-51.
disconnect_never(rw) == rw

disconnect(rw) == IF rw # "none" THEN "disconnected" ELSE rw

\* The finally clause of generate_images, lines 265-266; run_until_complete
\* then returns image_urls or raises.
GenerateImagesFinally ==
    /\ pc = "gi_finally"
    /\ runware' = disconnect(runware)
    /\ pc' = IF exc = "none" THEN "close_loop" ELSE "finally"
    /\ UNCHANGED <<loop, provider, requests, image_urls>>
    /\ UNCHANGED <<exc, session, storeVars, outVars, jobVars, trackVars, videoVars>>

\* Line 272.
CloseLoop ==
    /\ pc = "close_loop"
    /\ loop' = "closed"
    /\ pc' = "filter_images"
    /\ UNCHANGED <<runware, provider, requests, image_urls>>
    /\ UNCHANGED <<exc, session, storeVars, outVars, jobVars, trackVars, videoVars>>

(***************************************************************************)
(* Lines 274-282: the minimum of usable images, and the output path.       *)
(***************************************************************************)
too_few_when_none(valid) == Len(valid) < 1

\* Line 277.
TooFewImages(valid) == Len(valid) < MinViableImages

FilterImages ==
    /\ pc = "filter_images"
    /\ valid_image_urls' = NotNone(image_urls)
    /\ IF TooFewImages(valid_image_urls')
       THEN RaiseInTrack("Too few images generated")
       ELSE pc' = "make_output_path" /\ UNCHANGED exc
    /\ UNCHANGED <<files, audio_analysis, image_prompts>>
    /\ UNCHANGED <<session, storeVars, outVars, jobVars, batchVars, videoVars>>

\* Line 282: NamedTemporaryFile(delete=False) creates the (empty) file at
\* the output path; create_video is then called.  The environment decides
\* which downloads will not answer 200.
MakeOutputPath ==
    /\ pc = "make_output_path"
    /\ output' = "empty"
    /\ webfail' \in FailSets(Len(valid_image_urls))
    /\ k' = 1
    /\ temp_image_files' = <<>>
    /\ pc' = "cv_download"
    /\ UNCHANGED <<clips, image_duration, placed>>
    /\ UNCHANGED <<exc, session, storeVars, outVars, jobVars, trackVars, batchVars>>

(***************************************************************************)
(* VideoCreator.create_video, lines 127-189.  Its except clause logs and   *)
(* raises again: nothing is released on the way out.                       *)
(***************************************************************************)
RaiseInCreateVideo(msg) == RaiseInTrack(msg)

StatusCode(n, bad) == IF n \in bad THEN 404 ELSE HttpOk

\* Lines 132-141: one round of the download loop.
DownloadImage ==
    /\ pc = "cv_download"
    /\ k <= Len(valid_image_urls)
    /\ \/ /\ valid_image_urls[k] # None
          /\ StatusCode(k, webfail) = HttpOk
          /\ files' = files \cup {ImageFile(k - 1)}
          /\ temp_image_files' = Append(temp_image_files, ImageFile(k - 1))
          /\ k' = k + 1
          /\ UNCHANGED <<pc, exc>>
       \/ /\ valid_image_urls[k] = None \/ StatusCode(k, webfail) # HttpOk
          /\ k' = k + 1
          /\ UNCHANGED <<pc, exc, files, temp_image_files>>
       \/ /\ valid_image_urls[k] # None
          /\ RaiseInCreateVideo("image download failed")
          /\ UNCHANGED <<k, files, temp_image_files>>
    /\ UNCHANGED <<audio_analysis, image_prompts, valid_image_urls>>
    /\ UNCHANGED <<webfail, clips, image_duration, output, placed>>
    /\ UNCHANGED <<session, storeVars, outVars, jobVars, batchVars>>

\* Lines 143-144.
CheckImages ==
    /\ pc = "cv_download"
    /\ k > Len(valid_image_urls)
    /\ IF temp_image_files = <<>>
       THEN RaiseInCreateVideo("No valid images to create video")
       ELSE pc' = "cv_duration" /\ UNCHANGED exc
    /\ UNCHANGED <<session, storeVars, outVars, jobVars, trackVars, batchVars, videoVars>>

\* Lines 149-154, as the fraction <<numerator, denominator>>.
BeatIntervals(beat_times) == [t \in 1..(Len(beat_times) - 1) |-> beat_times[t + 1] - beat_times[t]]

\* Line 153: beats_per_image inside create_video.
BeatsPerImageUsed(beat_times, n_images) == Max(1, Len(beat_times) \div n_images)

BeatDuration(beat_times, n_images) ==
    <<SumSeq(BeatIntervals(beat_times)) * BeatsPerImageUsed(beat_times, n_images),
      Len(BeatIntervals(beat_times))>>

\* Line 158.
even_duration_by_requested(duration, n_images) == <<duration, MinImages>>

EvenDuration(duration, n_images) == <<duration, n_images>>

\* Lines 147-159.  The fallback opens the audio and closes it again.
ImageDuration ==
    /\ pc = "cv_duration"
    /\ IF Len(audio_analysis[1].beat_times) > 1
       THEN /\ image_duration' = BeatDuration(audio_analysis[1].beat_times, Len(temp_image_files))
            /\ pc' = "cv_image_clip"
            /\ UNCHANGED exc
       ELSE \/ /\ image_duration' = EvenDuration(audio_analysis[1].duration, Len(temp_image_files))
               /\ pc' = "cv_image_clip"
               /\ UNCHANGED exc
            \/ /\ RaiseInCreateVideo("audio file could not be opened")
               /\ UNCHANGED image_duration
    /\ UNCHANGED <<webfail, k, temp_image_files, clips, output, placed>>
    /\ UNCHANGED <<session, storeVars, outVars, jobVars, trackVars, batchVars>>

\* Line 162.
OpenImageSequenceClip ==
    /\ pc = "cv_image_clip"
    /\ \/ /\ clips' = clips \cup {"video_clip"}
          /\ pc' = "cv_audio_clip"
          /\ UNCHANGED exc
       \/ /\ RaiseInCreateVideo("image sequence could not be built")
          /\ UNCHANGED clips
    /\ UNCHANGED <<webfail, k, temp_image_files, image_duration, output, placed>>
    /\ UNCHANGED <<session, storeVars, outVars, jobVars, trackVars, batchVars>>

\* Line 165.
OpenAudioFileClip ==
    /\ pc = "cv_audio_clip"
    /\ \/ /\ clips' = clips \cup {"audio_clip"}
          /\ pc' = "cv_write"
          /\ UNCHANGED exc
       \/ /\ RaiseInCreateVideo("audio file could not be opened")
          /\ UNCHANGED clips
    /\ UNCHANGED <<webfail, k, temp_image_files, image_duration, output, placed>>
    /\ UNCHANGED <<session, storeVars, outVars, jobVars, trackVars, batchVars>>

\* Lines 168-171: final_video, and the encoder writing to output_path.  A
\* failed write leaves the file as it was or partly written.
WriteVideoFile ==
    /\ pc = "cv_write"
    /\ clips' = clips \cup {"final_video"}
    /\ \/ /\ output' = "written"
          /\ placed' = Len(temp_image_files)
          /\ pc' = "cv_cleanup"
          /\ UNCHANGED exc
       \/ /\ output' \in {output, "partial"}
          /\ RaiseInCreateVideo("video could not be written")
          /\ UNCHANGED placed
    /\ UNCHANGED <<webfail, k, temp_image_files, image_duration>>
    /\ UNCHANGED <<session, storeVars, outVars, jobVars, trackVars, batchVars>>

\* Lines 173-185: the clips are closed and the temporary images removed.
Cleanup ==
    /\ pc = "cv_cleanup"
    /\ clips' = {}
    /\ files' = files \ Range(temp_image_files)
    /\ pc' = "upload"
    /\ UNCHANGED <<audio_analysis, image_prompts, valid_image_urls>>
    /\ UNCHANGED <<webfail, k, temp_image_files, image_duration, output, placed>>
    /\ UNCHANGED <<exc, session, storeVars, outVars, jobVars, batchVars>>

(***************************************************************************)
(* Lines 291-311: upload, descriptor, temporary files.                     *)
(***************************************************************************)
UploadVideo ==
    /\ pc = "upload"
    /\ \/ /\ uploaded' = Append(uploaded, [video |-> i + 1, images |-> placed])
          /\ pc' = "append_result"
          /\ UNCHANGED exc
       \/ /\ RaiseInTrack("video upload failed")
          /\ UNCHANGED uploaded
    /\ UNCHANGED <<published, session, storeVars, jobVars, trackVars, batchVars, videoVars>>

\* Lines 295-302.
video_result_zero_based(idx, analysis, valid) ==
    [video_id |-> idx, duration |-> analysis.duration,
     images_used |-> Len(valid), tempo |-> analysis.tempo]

VideoResult(idx, analysis, valid) ==
    [video_id |-> idx + 1, duration |-> analysis.duration,
     images_used |-> Len(valid), tempo |-> analysis.tempo]

\* Lines 295-307.
AppendResult ==
    /\ pc = "append_result"
    /\ video_results' = Append(video_results, VideoResult(i, audio_analysis[1], valid_image_urls))
    /\ output' = "absent"
    /\ pc' = "finally"
    /\ UNCHANGED <<music_files, i>>
    /\ UNCHANGED <<webfail, k, temp_image_files, clips, image_duration, placed>>
    /\ UNCHANGED <<exc, session, storeVars, outVars, trackVars, batchVars>>

\* Where control goes when the finally clause of the track body is done: on
\* to the next round, or out to the except clause with the exception.
after_finally_swallow(e) == "loop"

AfterFinally(e) == IF e = "none" THEN "loop" ELSE "except"

\* Lines 309-311, then the next round of the loop or the except clause.  At
\* the end of a round the locals of the round hold values that no later step
\* reads; they are reset.
Finally ==
    /\ pc = "finally"
    /\ files' = files \ {AudioFile}
    /\ pc' = AfterFinally(exc)
    /\ IF pc' = "loop"
       THEN /\ i' = i + 1
            /\ audio_analysis' = <<>>
            /\ image_prompts' = <<>>
            /\ valid_image_urls' = <<>>
            /\ provider' = {}
            /\ requests' = <<>>
            /\ image_urls' = <<>>
            /\ webfail' = {}
            /\ k' = 0
            /\ temp_image_files' = <<>>
            /\ image_duration' = <<0, 1>>
            /\ placed' = 0
            /\ UNCHANGED <<runware, loop, clips, output>>
       ELSE /\ UNCHANGED <<i, audio_analysis, image_prompts, valid_image_urls>>
            /\ UNCHANGED <<batchVars, videoVars>>
    /\ UNCHANGED <<exc, session, storeVars, outVars, music_files, video_results>>

(***************************************************************************)
(* Lines 313-331: results, completion, the completion event.               *)
(***************************************************************************)
store_results_skipped ==
    /\ pc = "store_results"
    /\ pc' = "set_completed"
    /\ UNCHANGED <<session, exc, storeVars, outVars, jobVars, trackVars, batchVars, videoVars>>

StoreResults ==
    /\ pc = "store_results"
    /\ HSet("phase3_results", <<[videos |-> video_results]>>)
    /\ pc' = "set_completed"
    /\ UNCHANGED <<exc, storeVars, outVars, jobVars, trackVars, batchVars, videoVars>>

SetStatusCompleted ==
    /\ pc = "set_completed"
    /\ HSet("phase3_status", "completed")
    /\ pc' = "set_progress_100"
    /\ UNCHANGED <<exc, storeVars, outVars, jobVars, trackVars, batchVars, videoVars>>

SetProgressHundred ==
    /\ pc = "set_progress_100"
    /\ HSet("phase3_progress", 100)
    /\ pc' = "publish"
    /\ UNCHANGED <<exc, storeVars, outVars, jobVars, trackVars, batchVars, videoVars>>

SessionId == "session"

\* Lines 325-328: the event.
CompletionEvent(results) == [session_id |-> SessionId, video_count |-> Len(results)]

\* Lines 325-328, inside the try of the task: publish may raise, and when it
\* raises (the connection is lost before the reply is read) the event may
\* or may not have gone out.
Publish ==
    /\ pc = "publish"
    /\ \/ /\ published' = Append(published, CompletionEvent(video_results))
          /\ pc' = "done"
          /\ UNCHANGED exc
       \/ /\ RaiseInTask("publish failed")
          /\ published' \in {published, Append(published, CompletionEvent(video_results))}
    /\ UNCHANGED <<uploaded, session, storeVars, jobVars, trackVars, batchVars, videoVars>>

(***************************************************************************)
(* The except clause, lines 333-337.                                       *)
(***************************************************************************)
SetStatusFailed ==
    /\ pc = "except"
    /\ HSet("phase3_status", "failed")
    /\ pc' = "except_error"
    /\ UNCHANGED <<exc, storeVars, outVars, jobVars, trackVars, batchVars, videoVars>>

SetError ==
    /\ pc = "except_error"
    /\ HSet("phase3_error", exc)
    /\ pc' = "raised"
    /\ UNCHANGED <<exc, storeVars, outVars, jobVars, trackVars, batchVars, videoVars>>

(***************************************************************************)
(* The run of the task.                                                    *)
(***************************************************************************)
Next ==
    \/ SetStatusProcessing
    \/ SetProgressZero
    \/ GetPreferences
    \/ GetPhase2Results
    \/ LoopHead
    \/ DownloadAudio
    \/ AnalyzeAudio
    \/ BuildPrompts
    \/ NewRunwareService
    \/ NewEventLoop
    \/ Connect
    \/ StartBatch
    \/ \E j \in 1..Len(requests) : GenerateImage(j)
    \/ GatherReturns
    \/ GenerateImagesFinally
    \/ CloseLoop
    \/ FilterImages
    \/ MakeOutputPath
    \/ DownloadImage
    \/ CheckImages
    \/ ImageDuration
    \/ OpenImageSequenceClip
    \/ OpenAudioFileClip
    \/ WriteVideoFile
    \/ Cleanup
    \/ UploadVideo
    \/ AppendResult
    \/ Finally
    \/ StoreResults
    \/ SetStatusCompleted
    \/ SetProgressHundred
    \/ Publish
    \/ SetStatusFailed
    \/ SetError

Spec == Init /\ [][Next]_vars

(***************************************************************************)
(* One call of generate_images (lines 260-266) on its own: a batch of any  *)
(* size up to MaxPrompts, every set of failing requests, every order in    *)
(* which the requests end.                                                 *)
(***************************************************************************)
InitBatch ==
    /\ pc = "gi_connect"
    /\ session = [FreshSession(NoField) EXCEPT !.phase3_status = "processing",
                                               !.phase3_progress = 0]
    /\ preferences = <<"cinematic">>
    /\ api_key = TRUE
    /\ exc = "none"
    /\ music_files = <<>>
    /\ i = 0
    /\ video_results = <<>>
    /\ files = {AudioFile}
    /\ audio_analysis = <<>>
    /\ image_prompts \in {[j \in 1..n |-> j] : n \in 0..MaxPrompts}
    /\ runware = "none"
    /\ loop = "open"
    /\ provider = {}
    /\ requests = <<>>
    /\ image_urls = <<>>
    /\ valid_image_urls = <<>>
    /\ webfail = {}
    /\ k = 0
    /\ temp_image_files = <<>>
    /\ clips = {}
    /\ image_duration = <<0, 1>>
    /\ output = "absent"
    /\ placed = 0
    /\ uploaded = <<>>
    /\ published = <<>>
    /\ Phase2Idle
    /\ ValidatorIdle

NextBatch ==
    \/ Connect
    \/ StartBatch
    \/ \E j \in 1..Len(requests) : GenerateImage(j)
    \/ GatherReturns
    \/ GenerateImagesFinally

SpecBatch == InitBatch /\ [][NextBatch]_vars

(***************************************************************************)
(* One call of create_video (lines 284-289) on its own, for a wider set of *)
(* beat timelines: no beat, one beat, two beats, uneven beats, beats at    *)
(* the same time, and the timelines of the job above.                      *)
(***************************************************************************)
MaxUrls == 5            \* create_video is given MinViableImages..MaxUrls URLs

VideoTimelines ==
    Timelines \cup
    { [beat_times |-> <<7>>, duration |-> 200, tempo |-> 0],
      [beat_times |-> <<0, 6>>, duration |-> 10, tempo |-> 100],
      [beat_times |-> <<1, 4, 9>>, duration |-> 100, tempo |-> 150],
      [beat_times |-> <<5, 5>>, duration |-> 100, tempo |-> 120] }

InitVideo ==
    /\ pc = "make_output_path"
    /\ session = [FreshSession(NoField) EXCEPT !.phase3_status = "processing",
                                               !.phase3_progress = 0]
    /\ preferences = <<"cinematic">>
    /\ api_key = TRUE
    /\ exc = "none"
    /\ audio_analysis \in {<<t>> : t \in VideoTimelines}
    /\ music_files = audio_analysis
    /\ i = 0
    /\ video_results = <<>>
    /\ files = {AudioFile}
    /\ valid_image_urls \in {[j \in 1..n |-> j] : n \in MinViableImages..MaxUrls}
    /\ image_urls = valid_image_urls
    /\ image_prompts = valid_image_urls
    /\ requests = [j \in 1..Len(image_prompts) |-> "ok"]
    /\ runware = "disconnected"
    /\ loop = "closed"
    /\ provider = {}
    /\ webfail = {}
    /\ k = 0
    /\ temp_image_files = <<>>
    /\ clips = {}
    /\ image_duration = <<0, 1>>
    /\ output = "absent"
    /\ placed = 0
    /\ uploaded = <<>>
    /\ published = <<>>
    /\ Phase2Idle
    /\ ValidatorIdle

NextVideo ==
    \/ MakeOutputPath
    \/ DownloadImage
    \/ CheckImages
    \/ ImageDuration
    \/ OpenImageSequenceClip
    \/ OpenAudioFileClip
    \/ WriteVideoFile
    \/ Cleanup

SpecVideo == InitVideo /\ [][NextVideo]_vars

(***************************************************************************)
(* Phase 2 (src/phase2_worker.py): SunoService.generate_music,             *)
(* MusicGenerationService.generate_music and the Celery task               *)
(* process_music_generation, which stores the songs and enqueues the       *)
(* phase 3 task.  A song is modelled by the audio it carries.              *)
(***************************************************************************)
MaxClips == 4           \* at most this many clips in a direct answer of the Suno API

MaxSongs == 2           \* phase2_worker.py:327
MaxRetries == 3         \* phase2_worker.py:476

phase3Vars == <<pc, session, exc, outVars, jobVars, trackVars, batchVars, videoVars>>
phase3Locals == <<exc, outVars, jobVars, trackVars, batchVars, videoVars>>
readVars == <<preferences, api_key, validatorVars>>

ClipLists == UNION {[1..n -> Timelines] : n \in 0..MaxClips}

Min(a, b) == IF a <= b THEN a ELSE b

\* songs[:2]
FirstSongs(songs) == SubSeq(songs, 1, Min(MaxSongs, Len(songs)))

Failure(service, msg) ==
    [success |-> FALSE, songs |-> <<>>, error |-> msg, service |-> service]

Success(service, songs) ==
    [success |-> TRUE, songs |-> songs, error |-> "none", service |-> service]

\* generate_music returns to whoever called it.
SunoReturns(result) ==
    /\ music_result' = <<result>>
    /\ p2pc' = IF caller = "task" THEN "p2_check_result" ELSE "mgs_done"

\* Lines 258-259.
SunoCheckKey ==
    /\ p2pc = "suno_check_key"
    /\ IF apibox_key
       THEN p2pc' = "suno_post" /\ UNCHANGED music_result
       ELSE SunoReturns(Failure("suno", "APIBOX_KEY not configured"))
    /\ UNCHANGED <<caller, response, found>>
    /\ UNCHANGED <<phase3Vars, readVars, phase2Stores, phase2Env, phase2Locals>>

\* Lines 288-308 and 321-324, 356-363: the request is posted; the call
\* raises (line 365), or the API answers with a status other than 200, with a body that
\* is not JSON, with a taskId, or with a document that has no taskId, whose
\* "clips" are taken.
SunoPost ==
    /\ p2pc = "suno_post"
    /\ \/ /\ response' = "raised"
          /\ SunoReturns(Failure("suno", "request failed"))
          /\ UNCHANGED found
       \/ /\ response' = "http_error"
          /\ SunoReturns(Failure("suno", "Suno API error"))
          /\ UNCHANGED found
       \/ /\ response' = "bad_json"
          /\ SunoReturns(Failure("suno", "Invalid JSON response"))
          /\ UNCHANGED found
       \/ /\ response' = "task_id"
          /\ p2pc' = "suno_task_id"
          /\ UNCHANGED <<found, music_result>>
       \/ /\ response' = "clips"
          /\ found' \in ClipLists
          /\ p2pc' = "suno_collect"
          /\ UNCHANGED music_result
    /\ UNCHANGED caller
    /\ UNCHANGED <<phase3Vars, readVars, phase2Stores, phase2Env, phase2Locals>>

\* Lines 309-310: task_id is bound, and the f-string of line 310 reads the
\* name taskId, which is bound nowhere: NameError, caught by line 365.  The
\* calls of check_callback_results and poll_for_results (lines 313-318)
\* follow line 310 and are never reached.
SunoLogTaskId ==
    /\ p2pc = "suno_task_id"
    /\ SunoReturns(Failure("suno", "name 'taskId' is not defined"))
    /\ UNCHANGED <<caller, response, found>>
    /\ UNCHANGED <<phase3Vars, readVars, phase2Stores, phase2Env, phase2Locals>>

\* Lines 326-355.
SunoCollect ==
    /\ p2pc = "suno_collect"
    /\ SunoReturns(Success("suno", FirstSongs(found)))
    /\ UNCHANGED <<caller, response, found>>
    /\ UNCHANGED <<phase3Vars, readVars, phase2Stores, phase2Env, phase2Locals>>

(***************************************************************************)
(* MusicGenerationService.generate_music, lines 38-102.  No statement of   *)
(* its try block raises: _generate_with_lyria and SunoService.             *)
(* generate_music catch every exception and return a failure result, so    *)
(* the except clause of lines 50-60 has no step here.                      *)
(***************************************************************************)
\* Lines 42-49.
MgsGenerateMusic ==
    /\ p2pc = "mgs_start"
    /\ IF lyria.use /\ lyria.credentials
       THEN p2pc' = "lyria_generate" /\ UNCHANGED caller
       ELSE p2pc' = "suno_check_key" /\ caller' = "service"
    /\ UNCHANGED <<response, found, music_result>>
    /\ UNCHANGED <<phase3Vars, readVars, phase2Stores, phase2Env, phase2Locals>>

\* Lines 64-76 and 93-94: lyria_service.generate_music returns a result; a
\* result without success is returned as it is.
LyriaGenerate ==
    /\ p2pc = "lyria_generate"
    /\ \/ /\ lyria' = [lyria EXCEPT !.state = "generated"]
          /\ p2pc' = "lyria_save"
          /\ UNCHANGED music_result
       \/ /\ lyria' = [lyria EXCEPT !.state = "failed"]
          /\ music_result' = <<Failure("lyria", "Lyria API error")>>
          /\ p2pc' = "mgs_done"
    /\ UNCHANGED <<apibox_key, caller, response, found>>
    /\ UNCHANGED <<phase3Vars, readVars, phase2Stores, phase2Locals>>

\* One generated piece of music, as the caller gets it.
LyriaAudio == [beat_times |-> <<>>, duration |-> 300, tempo |-> 0]

\* Lines 77-92 and 97-102: the audio is saved; save_audio_file may raise,
\* which line 97 catches.
LyriaSave ==
    /\ p2pc = "lyria_save"
    /\ \/ /\ music_result' = <<Success("lyria", <<LyriaAudio>>)>>
          /\ UNCHANGED lyria
       \/ /\ lyria' = [lyria EXCEPT !.state = "failed"]
          /\ music_result' = <<Failure("lyria", "Lyria generation failed")>>
    /\ p2pc' = "mgs_done"
    /\ UNCHANGED <<apibox_key, caller, response, found>>
    /\ UNCHANGED <<phase3Vars, readVars, phase2Stores, phase2Locals>>

(***************************************************************************)
(* process_music_generation, lines 476-640.                                *)
(***************************************************************************)
\* Lines 482-488: without preferences the task returns a failure result and
\* writes nothing.
P2GetPreferences ==
    /\ p2pc = "p2_start"
    /\ IF preferences = <<>>
       THEN p2pc' = "p2_done" /\ returned' = "failure"
       ELSE p2pc' = "p2_set_processing" /\ UNCHANGED returned
    /\ UNCHANGED <<retries, stored_songs, song_index, gcs_paths>>
    /\ UNCHANGED <<phase3Vars, readVars, phase2Stores, phase2Env, sunoVars>>

\* Lines 492-507.
P2SetProcessing ==
    /\ p2pc = "p2_set_processing"
    /\ p2status' = "processing"
    /\ caller' = "task"
    /\ p2pc' = "suno_check_key"
    /\ UNCHANGED <<p2results, triggered, response, found, music_result>>
    /\ UNCHANGED <<phase3Vars, readVars, phase2Env, phase2Locals>>

\* Lines 509-538.
P2CheckResult ==
    /\ p2pc = "p2_check_result"
    /\ IF music_result[1].success
       THEN /\ p2status' = "storing"
            /\ p2pc' = "p2_upload"
            /\ UNCHANGED returned
       ELSE /\ p2status' = "failed"
            /\ p2pc' = "p2_done"
            /\ returned' = "failure"
    /\ stored_songs' = <<>>
    /\ song_index' = 0
    /\ UNCHANGED <<p2results, triggered, retries, gcs_paths>>
    /\ UNCHANGED <<phase3Vars, readVars, phase2Env, sunoVars>>

\* Lines 560 and 569: the song is appended whether or not it was uploaded.
after_upload_stored_only(stored, song, ok) == IF ok THEN Append(stored, song) ELSE stored

AfterUpload(stored, song, ok) == Append(stored, song)

\* Lines 542-569: upload_audio_file returns a result with or without
\* success (it catches every exception, lines 439-441).
P2Upload ==
    /\ p2pc = "p2_upload"
    /\ IF song_index < Len(music_result[1].songs)
       THEN /\ \E ok \in BOOLEAN :
                 /\ stored_songs' = AfterUpload(stored_songs,
                                                music_result[1].songs[song_index + 1], ok)
                 /\ gcs_paths' = IF ok THEN gcs_paths \cup {song_index + 1} ELSE gcs_paths
            /\ song_index' = song_index + 1
            /\ UNCHANGED p2pc
       ELSE /\ p2pc' = "p2_store_results"
            /\ UNCHANGED <<stored_songs, gcs_paths, song_index>>
    /\ UNCHANGED <<retries, returned>>
    /\ UNCHANGED <<phase3Vars, readVars, phase2Stores, phase2Env, sunoVars>>

\* Lines 571-585.
FinalResults(stored) == [key |-> "songs", items |-> stored, total_songs |-> Len(stored)]

\* Lines 584-586.
P2StoreResults ==
    /\ p2pc = "p2_store_results"
    /\ p2results' = <<FinalResults(stored_songs)>>
    /\ p2pc' = "p2_set_completed"
    /\ UNCHANGED <<p2status, triggered>>
    /\ UNCHANGED <<phase3Vars, readVars, phase2Env, sunoVars, phase2Locals>>

\* Lines 588-601.
P2SetCompleted ==
    /\ p2pc = "p2_set_completed"
    /\ p2status' = "completed"
    /\ p2pc' = "p2_hset_results"
    /\ UNCHANGED <<p2results, triggered>>
    /\ UNCHANGED <<phase3Vars, readVars, phase2Env, sunoVars, phase2Locals>>

\* Lines 603-608.
P2HSetResults ==
    /\ p2pc = "p2_hset_results"
    /\ HSet("phase2_results", <<FinalResults(stored_songs)>>)
    /\ p2pc' = "p2_trigger"
    /\ UNCHANGED <<pc, phase3Locals>>
    /\ UNCHANGED <<readVars, phase2Stores, phase2Env, sunoVars, phase2Locals>>

\* The phase 3 task is enqueued: a worker will start it.
Enqueued == IF pc = "idle" THEN pc' = "start" ELSE UNCHANGED pc

\* Lines 610-615: the phase 3 task is imported and enqueued, and the run
\* returns final_results.  The import or the call may raise (line 617), the
\* call possibly after the message was sent.
P2Trigger ==
    /\ p2pc = "p2_trigger"
    /\ \/ /\ triggered' = triggered + 1
          /\ Enqueued
          /\ p2pc' = "p2_done"
          /\ returned' = "results"
       \/ /\ \/ triggered' = triggered /\ UNCHANGED pc
             \/ triggered' = triggered + 1 /\ Enqueued
          /\ p2pc' = "p2_except"
          /\ UNCHANGED returned
    /\ UNCHANGED <<p2status, p2results, retries, stored_songs, song_index, gcs_paths>>
    /\ UNCHANGED <<session, phase3Locals, readVars, phase2Env, sunoVars>>

\* Line 636.
retry_once_more(n) == n <= MaxRetries

MayRetry(n) == n < MaxRetries

\* Lines 617-640: the status becomes 'failed'; then the task asks to be
\* retried, or returns a failure result.
P2Except ==
    /\ p2pc = "p2_except"
    /\ p2status' = "failed"
    /\ IF MayRetry(retries)
       THEN p2pc' = "p2_retry" /\ returned' = "retry"
       ELSE p2pc' = "p2_done" /\ returned' = "failure"
    /\ UNCHANGED <<p2results, triggered, retries, stored_songs, song_index, gcs_paths>>
    /\ UNCHANGED <<phase3Vars, readVars, phase2Env, sunoVars>>

\* self.retry: the worker runs the task again, with one more retry counted.
P2Retry ==
    /\ p2pc = "p2_retry"
    /\ retries' = retries + 1
    /\ p2pc' = "p2_start"
    /\ returned' = "none"
    /\ stored_songs' = <<>>
    /\ song_index' = 0
    /\ gcs_paths' = {}
    /\ caller' = "none"
    /\ response' = "none"
    /\ found' = <<>>
    /\ music_result' = <<>>
    /\ UNCHANGED <<phase3Vars, readVars, phase2Stores, phase2Env>>

\* One session from the start of phase 2.  Of the phase 3 task only the
\* steps it can reach on what phase 2 stored are listed.
InitPhase2 ==
    /\ pc = "idle"
    /\ session = FreshSession(NoField)
    /\ preferences \in {<<>>, <<"cinematic">>}
    /\ api_key = TRUE
    /\ Locals
    /\ p2pc = "p2_start"
    /\ p2status = "none"
    /\ p2results = <<>>
    /\ retries = 0
    /\ apibox_key \in BOOLEAN
    /\ lyria = [use |-> FALSE, credentials |-> FALSE, state |-> "unused"]
    /\ SunoIdle
    /\ stored_songs = <<>>
    /\ song_index = 0
    /\ gcs_paths = {}
    /\ triggered = 0
    /\ returned = "none"
    /\ ValidatorIdle

NextPhase2 ==
    \/ P2GetPreferences
    \/ P2SetProcessing
    \/ SunoCheckKey
    \/ SunoPost
    \/ SunoLogTaskId
    \/ SunoCollect
    \/ P2CheckResult
    \/ P2Upload
    \/ P2StoreResults
    \/ P2SetCompleted
    \/ P2HSetResults
    \/ P2Trigger
    \/ P2Except
    \/ P2Retry
    \/ SetStatusProcessing
    \/ SetProgressZero
    \/ GetPreferences
    \/ GetPhase2Results
    \/ SetStatusFailed
    \/ SetError

SpecPhase2 == InitPhase2 /\ [][NextPhase2]_vars

\* One call of MusicGenerationService.generate_music.
InitMusic ==
    /\ pc = "idle"
    /\ session = FreshSession(NoField)
    /\ preferences = <<"cinematic">>
    /\ api_key = TRUE
    /\ Locals
    /\ p2pc = "mgs_start"
    /\ p2status = "none"
    /\ p2results = <<>>
    /\ retries = 0
    /\ apibox_key \in BOOLEAN
    /\ lyria \in [use : BOOLEAN, credentials : BOOLEAN, state : {"unused"}]
    /\ lyria.credentials => lyria.use
    /\ SunoIdle
    /\ stored_songs = <<>>
    /\ song_index = 0
    /\ gcs_paths = {}
    /\ triggered = 0
    /\ returned = "none"
    /\ ValidatorIdle

NextMusic ==
    \/ MgsGenerateMusic
    \/ LyriaGenerate
    \/ LyriaSave
    \/ SunoCheckKey
    \/ SunoPost
    \/ SunoLogTaskId
    \/ SunoCollect

SpecMusic == InitMusic /\ [][NextMusic]_vars

(***************************************************************************)
(* PreferenceValidator.validate_preferences, in src/utils/validators.py    *)
(* and in src/app.py: the checks of the genre (validators.py only), of the *)
(* duration and of the project name.  The other checks of validators.py   *)
(* (mood, tempo, instruments, video fields, description) only add errors   *)
(* for fields that are absent from the data modelled here.                 *)
(***************************************************************************)
DurationMargin == 2     \* integer durations from -DurationMargin to DurationMax + DurationMargin

DurationMin == 10       \* validators.py:80, app.py:138
DurationMax == 300      \* validators.py:80, app.py:138
NameLimit == 100        \* validators.py:124, app.py:145

DurationInputs == (0 - DurationMargin)..(DurationMax + DurationMargin)

\* data.get('duration'): no value, an int, the decimal numeral of an int as
\* a string, or a string that is not a numeral.
DurationValues ==
    {[kind |-> "absent", value |-> 0], [kind |-> "text", value |-> 0]}
        \cup {[kind |-> kd, value |-> v] : kd \in {"int", "numeral"}, v \in DurationInputs}

PreferenceData ==
    {d \in [empty : BOOLEAN, duration : DurationValues,
            genre : {"absent", "pop", "polka"},
            name_len : {0, NameLimit, NameLimit + 1}] :
        d.empty => d.duration.kind = "absent" /\ d.genre = "absent" /\ d.name_len = 0}

\* if duration: None, 0 and '' are false.
Truthy(d) == d.kind \in {"numeral", "text"} \/ (d.kind = "int" /\ d.value # 0)

DurationRangeError == "Duration must be between 10 and 300 seconds"

\* validators.py lines 76-83, app.py lines 134-141.
DurationErrors(d) ==
    IF ~Truthy(d) THEN <<>>
    ELSE IF d.kind = "text" THEN <<"Duration must be a valid number">>
    ELSE IF d.value < DurationMin \/ d.value > DurationMax THEN <<DurationRangeError>>
    ELSE <<>>

\* validators.py lines 61-63.
GenreErrors(g) == IF g \notin {"absent", "pop"} THEN <<"Invalid genre">> ELSE <<>>

\* validators.py lines 123-125, app.py lines 144-146.
NameErrors(n) ==
    IF n > NameLimit THEN <<"Project name must be less than 100 characters">> ELSE <<>>

ValidatePreferences(which, data) ==
    IF data.empty THEN [valid |-> FALSE, errors |-> <<"No data provided">>]
    ELSE LET errors == IF which = "app"
                       THEN DurationErrors(data.duration) \o NameErrors(data.name_len)
                       ELSE GenreErrors(data.genre) \o DurationErrors(data.duration)
                                \o NameErrors(data.name_len)
         IN  [valid |-> Len(errors) = 0, errors |-> errors]

Validate ==
    /\ vdata # <<>>
    /\ vresult = <<>>
    /\ vresult' = <<ValidatePreferences(vdata[1].validator, vdata[1].data)>>
    /\ UNCHANGED <<vdata, preferences, api_key, phase2Vars, phase3Vars>>

InitValidate ==
    /\ pc = "idle"
    /\ session = FreshSession(NoField)
    /\ preferences = <<>>
    /\ api_key = TRUE
    /\ Locals
    /\ Phase2Idle
    /\ vdata \in {<<[validator |-> w, data |-> d]>> : w \in {"app", "utils"}, d \in PreferenceData}
    /\ vresult = <<>>

NextValidate == Validate

SpecValidate == InitValidate /\ [][NextValidate]_vars

(***************************************************************************)
(* Properties.                                                             *)
(***************************************************************************)
Status == session.phase3_status

ProgressField == session.phase3_progress

Ended == pc \in {"done", "raised"}

\* C1: within one run the job record only moves forward: the first writes
\* are status 'processing' and progress 0, progress never decreases, and once
\* status is 'completed' or 'failed' neither status nor progress changes.
C1_RecordOnlyMovesForward ==
    [][/\ session'.phase3_progress >= session.phase3_progress
       /\ Status = "none" => session'.phase3_status \in {"none", "processing"}
       /\ ProgressField = -1 /\ session'.phase3_progress # -1
            => session'.phase3_progress = 0 /\ session'.phase3_status = "processing"
       /\ Status \in {"completed", "failed"}
            => /\ session'.phase3_status = Status
               /\ session'.phase3_progress = ProgressField]_vars

\* C2: when a run ends, either status is 'completed' and progress is 100, or
\* status is 'failed' and progress is below 100.
C2_EndsCompletedAtHundredOrFailedBelow ==
    Ended => \/ Status = "completed" /\ ProgressField = 100
             \/ Status = "failed" /\ ProgressField < 100

\* generate_images_batch has returned its list (line 92).
BatchReturned == pc = "gi_finally" /\ exc = "none"

\* C3: generate_images_batch on N prompts returns exactly N elements, element
\* j being the URL produced for prompt j, or None when request j failed.
C3_BatchKeepsLengthAndOrder ==
    BatchReturned =>
        /\ Len(image_urls) = Len(image_prompts)
        /\ \A j \in 1..Len(image_prompts) :
              image_urls[j] = IF requests[j] = "fail" THEN None ELSE image_prompts[j]

C3_Witness ==
    /\ BatchReturned
    /\ Len(image_prompts) > 2
    /\ requests[1] = "ok" /\ requests[2] = "fail" /\ requests[3] = "ok"

\* C4: every prompt's request is started and ends with its own outcome in
\* every interleaving; a failed request gives None at its own position, leaves
\* no other request unfinished, and does not make the batch call raise.
C4_FailureDoesNotAbortSiblings ==
    /\ pc = "gather" => DOMAIN requests = DOMAIN image_prompts
    /\ pc = "gi_finally" =>
          /\ exc = "none"
          /\ \A j \in 1..Len(image_prompts) :
                /\ requests[j] = IF j \in provider THEN "fail" ELSE "ok"
                /\ requests[j] = "fail" => image_urls[j] = None
                /\ requests[j] = "ok" => image_urls[j] # None

C4_Witness ==
    /\ pc = "gi_finally"
    /\ Len(image_prompts) > 1
    /\ requests[1] = "fail" /\ requests[2] = "ok"

\* The positions of the task inside generate_images after connect.
InBatchCall == pc \in {"gi_batch", "gather", "gi_finally"}

\* C5: the provider connection is established before the first image request
\* is issued, and no connection is open once the call has exited, whether
\* with a full result, with failed requests or with an exception.
C5_ConnectionScopedToBatch ==
    /\ (pc = "gather" \/ \E j \in DOMAIN requests : requests[j] = "pending")
          => runware = "connected"
    /\ ~InBatchCall => runware # "connected"

C5_Witness ==
    /\ pc = "close_loop"
    /\ runware = "disconnected"
    /\ \E j \in DOMAIN requests : requests[j] = "fail"

\* The positions of the task inside create_video.
InCreateVideo ==
    pc \in {"cv_download", "cv_duration", "cv_image_clip", "cv_audio_clip",
            "cv_write", "cv_cleanup"}

\* C6: create_video is called, and an output file exists, only when at least
\* 4 images were generated; with fewer the filter step raises and leaves no
\* output file.
C6_NoAssemblyBelowFourGenerated ==
    /\ [](InCreateVideo \/ output # "absent"
            => Len(NotNone(image_urls)) >= MinViableImages)
    /\ [][pc = "filter_images" /\ Len(NotNone(image_urls)) < MinViableImages
            => /\ pc' = "finally"
               /\ exc' = "Too few images generated"
               /\ output' = "absent"]_vars

C6_Witness ==
    /\ pc = "raised"
    /\ exc = "Too few images generated"
    /\ Len(valid_image_urls) = MinViableImages - 1
    /\ output = "absent"

\* C7: when failed downloads leave fewer than 4 usable images, create_video
\* aborts and writes no video.
C7_AbortsBelowFourUsable ==
    /\ pc \in {"cv_duration", "cv_image_clip", "cv_audio_clip", "cv_write", "cv_cleanup"}
          => Len(temp_image_files) >= MinViableImages
    /\ output = "written" => placed >= MinViableImages

\* The failure came out of the assembly of a track (lines 280-293).
AssemblyFailed ==
    exc \in {"image download failed", "No valid images to create video",
             "audio file could not be opened", "image sequence could not be built",
             "video could not be written", "video upload failed"}

\* C8: when the assembly of a track fails, no file exists at the output path
\* once the failure has propagated.
C8_NoOutputFileAfterFailure ==
    pc \in {"except", "except_error", "raised"} /\ AssemblyFailed => output = "absent"

\* C9: when create_video has returned or raised, every temporary image file
\* it wrote is deleted and every clip it opened is closed.
C9_TemporariesReleased ==
    ~InCreateVideo => /\ clips = {}
                      /\ files \cap Range(temp_image_files) = {}

\* An exception raised by a step of a track is propagating.
FailedInLoop == exc # "none" /\ i < Len(music_files)

\* C10: when a step of a track raises, no further track is processed and
\* nothing more is appended, uploaded or published; the results field is not
\* written; the run ends with status 'failed' and the exception's message in
\* the error field.
C10_TrackFailureFailsJob ==
    /\ [](FailedInLoop =>
            /\ session.phase3_results = NoField
            /\ pc \in {"finally", "except", "except_error", "raised"}
            /\ pc = "raised" => Status = "failed" /\ session.phase3_error = exc)
    /\ [][FailedInLoop =>
            /\ i' = i
            /\ exc' = exc
            /\ video_results' = video_results
            /\ uploaded' = uploaded
            /\ published' = published]_vars

C10_Witness ==
    /\ pc = "raised"
    /\ FailedInLoop
    /\ i = 1
    /\ Len(video_results) = 1
    /\ session.phase3_error = "audio analysis failed"

\* C11: the results are written before status becomes 'completed': whenever
\* status is 'completed' the results field is present and holds one
\* descriptor per input track.
C11_ResultsPresentWhenCompleted ==
    Status = "completed" =>
        /\ session.phase3_results # NoField
        /\ Len(session.phase3_results[1].videos) = Len(music_files)

C11_Witness ==
    /\ Status = "completed"
    /\ Len(music_files) > 1
    /\ pc = "set_progress_100"

\* C12: a run publishes the completion event at most once: exactly once, with
\* the session identifier and a video count equal to the number of tracks,
\* when the job completes, and never when the job ends 'failed'.
C12_EventOnceAndOnlyOnCompletion ==
    /\ Len(published) <= 1
    /\ pc = "done" =>
          published = <<[session_id |-> SessionId, video_count |-> Len(music_files)]>>
    /\ Ended /\ Status = "failed" => published = <<>>

\* create_video has computed image_duration.
DurationComputed == pc \in {"cv_image_clip", "cv_audio_clip", "cv_write", "cv_cleanup"}

Beats == audio_analysis[1].beat_times

\* C13: with at least 2 beats the duration of every image is the mean
\* interval between consecutive beats times 4, whatever the number of images
\* (as fractions: num / den = 4 * sum / count).
C13_DurationIsMeanIntervalTimesFour ==
    DurationComputed /\ Len(Beats) > 1 =>
        image_duration[1] * Len(BeatIntervals(Beats))
            = BeatsPerImage * SumSeq(BeatIntervals(Beats)) * image_duration[2]

\* C14: with 0 or 1 beats the duration of every image is the audio duration
\* divided by the number of images used, and the only error the step can
\* raise is that of opening the audio.
C14_EvenDivisionWithoutBeats ==
    /\ [](DurationComputed /\ Len(Beats) <= 1 =>
            /\ image_duration[2] > 0
            /\ image_duration[1] * Len(temp_image_files)
                  = audio_analysis[1].duration * image_duration[2])
    /\ [][pc = "cv_duration" /\ Len(Beats) <= 1 /\ exc' # "none"
            => exc' = "audio file could not be opened"]_vars

C14_Witness ==
    /\ pc = "cv_image_clip"
    /\ Len(Beats) = 1
    /\ Len(temp_image_files) < Len(valid_image_urls)
    /\ image_duration = <<audio_analysis[1].duration, Len(temp_image_files)>>

NonDecreasing(ts) == \A t \in 1..(Len(ts) - 1) : ts[t] <= ts[t + 1]

C16_SameBeatsPerImage ==
    DurationComputed /\ Len(Beats) > 1 =>
        /\ Len(image_prompts) = Max(MinImages, Len(Beats) \div BeatsPerImage)
        /\ BeatsPerImageUsed(Beats, Len(temp_image_files)) = BeatsPerImage

\* C17: images_used of a track's descriptor is the number of images in the
\* video assembled (and uploaded) for that track.
C17_ImagesUsedIsImagesPlaced ==
    \A n \in 1..Len(video_results) : video_results[n].images_used = uploaded[n].images

\* The task is in the body of the track loop (lines 227-311).
InTrack ==
    pc \in {"download_audio", "analyze_audio", "build_prompts", "new_service",
            "new_event_loop", "gi_connect", "gi_batch", "gather", "gi_finally",
            "close_loop", "filter_images", "make_output_path", "cv_download",
            "cv_duration", "cv_image_clip", "cv_audio_clip", "cv_write",
            "cv_cleanup", "upload", "append_result", "finally"}

\* p = floor(a / n)
IsFloor(p, a, n) == p * n <= a /\ a < (p + 1) * n

\* C18: before track i of N is processed progress is written as
\* floor(i * 100 / N), and no other progress value is written while the loop
\* runs.
C18_ProgressPerTrack ==
    /\ [](InTrack \/ FailedInLoop => IsFloor(ProgressField, i * 100, Len(music_files)))
    /\ [][session'.phase3_progress # ProgressField /\ pc \notin {"set_progress_0", "set_progress_100"}
            => /\ pc = "loop" /\ pc' = "download_audio"
               /\ IsFloor(session'.phase3_progress, i * 100, Len(music_files))]_vars

C18_Witness ==
    /\ pc = "download_audio"
    /\ i = 1
    /\ Len(music_files) = 2
    /\ ProgressField = 50

\* C19: the event loop of a track is closed when the processing of the
\* track ends, on every exit path, and no loop is open when a track creates
\* its own.
C19_LoopClosedPerTrack ==
    /\ ~InTrack => loop # "open"
    /\ pc = "new_event_loop" => loop # "open"

\* C20: tracks are processed one at a time in input order: the steps of a
\* track run only when the descriptors of all earlier tracks, and no others,
\* are in the list; descriptor n is that of track n with video_id n; on
\* success there is one descriptor per track.
C20_TracksInOrder ==
    /\ InTrack => Len(video_results) = IF pc = "finally" /\ exc = "none" THEN i + 1 ELSE i
    /\ \A n \in 1..Len(video_results) :
          /\ video_results[n].video_id = n
          /\ video_results[n].duration = music_files[n].duration
          /\ video_results[n].tempo = music_files[n].tempo
    /\ pc \in {"store_results", "set_completed", "set_progress_100", "publish", "done"}
          => Len(video_results) = Len(music_files)

C20_Witness ==
    /\ pc = "done"
    /\ Len(video_results) = 2
    /\ music_files[1] # music_files[2]

\* C21: without the provider credential RunwareService() raises: no
\* connection is opened, no event loop is created, no image request is
\* issued, the job ends 'failed' with that error, and the task is not run
\* again.
C21_NoCredentialNoConnection ==
    /\ [](~api_key =>
            /\ runware = "none" /\ loop = "none" /\ requests = <<>>
            /\ Status # "completed"
            /\ Ended => pc = "raised" /\ Status = "failed"
            /\ pc = "raised" => ~ENABLED Next)
    /\ [][~api_key /\ pc = "new_service" =>
            /\ exc' = "RUNWARE_API_KEY environment variable is required"
            /\ pc' = "finally"]_vars

C21_Witness ==
    /\ ~api_key
    /\ pc = "raised"
    /\ Status = "failed"
    /\ session.phase3_error = "RUNWARE_API_KEY environment variable is required"

\* C22: no state of the job record has status 'completed' together with a
\* progress below 100, so no reader can observe one.
C22_CompletedMeansHundred == Status = "completed" => ProgressField = 100

\* The phase 3 task has read the track list.
TrackListRead ==
    pc \notin {"idle", "start", "set_progress_0", "get_preferences", "get_phase2_results"}

\* C23: the phase 3 run that a phase 2 run triggers after storing at least
\* one song reads one track per stored song and does not fail for lack of
\* music files.
C23_Phase3ReadsStoredSongs ==
    /\ triggered > 0
    /\ TrackListRead
    /\ Len(session.phase2_results[1].items) > 0
    => /\ Len(music_files) = Len(session.phase2_results[1].items)
       /\ exc # "No music files found from Phase 2"

NoPreferences == preferences = <<>>

NoPhase2Results == ~NoPreferences /\ session.phase2_results = NoField

EmptyTrackList ==
    /\ ~NoPreferences
    /\ session.phase2_results # NoField
    /\ MusicFilesOf(session.phase2_results[1]) = <<>>

\* C24: without preferences, without phase 2 results or with an empty track
\* list the job ends 'failed' with the matching error, and before that no
\* audio is downloaded, no image request is issued and no progress other
\* than 0 is written.
C24_MissingInputsFailEarly ==
    NoPreferences \/ NoPhase2Results \/ EmptyTrackList =>
        /\ pc \in {"start", "set_progress_0", "get_preferences", "get_phase2_results",
                   "except", "except_error", "raised"}
        /\ files = {} /\ requests = <<>> /\ runware = "none" /\ uploaded = <<>>
        /\ ProgressField <= 0
        /\ pc = "raised" =>
              /\ Status = "failed"
              /\ NoPreferences => session.phase3_error = "No preferences found for session"
              /\ NoPhase2Results => session.phase3_error = "No Phase 2 results found"
              /\ EmptyTrackList => session.phase3_error = "No music files found from Phase 2"

C24_Witness ==
    /\ pc = "raised"
    /\ NoPreferences
    /\ session.phase3_error = "No preferences found for session"
    /\ ProgressField = 0

\* A run of the phase 2 task has ended: it returned, or asked for a retry.
Phase2RunEnded == p2pc \in {"p2_done", "p2_retry"}

\* C25: phase 3 is enqueued only after phase 2 wrote 'completed' and stored
\* its results in both places; a phase 2 run that ends without enqueueing
\* phase 3 leaves the phase 2 status 'failed'.
C25_TriggerAfterCompletedElseFailed ==
    /\ p2pc = "p2_trigger" => p2status = "completed"
    /\ triggered > 0 => p2results # <<>> /\ session.phase2_results # NoField
    /\ Phase2RunEnded /\ returned # "results" => p2status = "failed"

\* C26: an exception in the phase 2 task sets the status 'failed' and has
\* the task retried; it is retried at most 3 times, and the exception of the
\* last retry makes it return a failure result with the status 'failed'.
C26_RetriedAtMostThreeTimes ==
    /\ [](retries <= MaxRetries)
    /\ [][p2pc = "p2_except" /\ p2pc' # p2pc =>
            /\ p2status' = "failed"
            /\ IF retries < MaxRetries
               THEN p2pc' = "p2_retry" /\ returned' = "retry"
               ELSE p2pc' = "p2_done" /\ returned' = "failure"]_vars
    /\ [][retries' # retries =>
            /\ p2pc = "p2_retry" /\ p2status = "failed"
            /\ retries' = retries + 1 /\ p2pc' = "p2_start"]_vars

C26_Witness ==
    /\ p2pc = "p2_done"
    /\ retries = MaxRetries
    /\ returned = "failure"
    /\ p2status = "failed"

\* C27: when the Suno API answers with a taskId, generate_music returns
\* success with at most 2 of the songs found by the callback or by polling.
C27_TaskIdAnswerGivesSongs ==
    response = "task_id" /\ music_result # <<>> =>
        /\ music_result[1].success
        /\ Len(music_result[1].songs) <= MaxSongs

\* C28: when Lyria is enabled and its generation fails,
\* MusicGenerationService.generate_music returns the result of Suno.
C28_SunoBackupAfterLyriaFailure ==
    p2pc = "mgs_done" /\ lyria.use /\ lyria.state = "failed" =>
        music_result[1].service = "suno"

\* C29: a song whose upload fails is still appended: after the storing loop
\* the stored list is the list of generated songs, total_songs is its
\* length, and the run goes on to 'completed' and to the trigger of phase 3.
C29_FailedUploadsKeepSong ==
    /\ [](p2pc = "p2_upload" =>
            stored_songs = SubSeq(music_result[1].songs, 1, song_index))
    /\ [](p2pc \in {"p2_store_results", "p2_set_completed", "p2_hset_results", "p2_trigger"} =>
            stored_songs = music_result[1].songs)
    /\ [](p2pc \in {"p2_set_completed", "p2_hset_results", "p2_trigger"} =>
            /\ p2results[1].items = music_result[1].songs
            /\ p2results[1].total_songs = Len(music_result[1].songs))
    /\ [](p2pc = "p2_trigger" =>
            p2status = "completed" /\ session.phase2_results = p2results)
    /\ [][p2pc = "p2_upload" =>
            /\ p2pc' \in {"p2_upload", "p2_store_results"}
            /\ p2status' = "storing" /\ returned' = returned]_vars

C29_Witness ==
    /\ p2pc = "p2_done"
    /\ returned = "results"
    /\ triggered > 0
    /\ gcs_paths = {1}
    /\ Len(stored_songs) = MaxSongs
    /\ p2results[1].total_songs = MaxSongs

\* C30: an integer duration outside 10..300 makes validate_preferences
\* answer valid = False with the duration error.
C30_IntegerDurationOutOfRangeRejected ==
    /\ vresult # <<>>
    /\ vdata[1].data.duration.kind = "int"
    /\ vdata[1].data.duration.value < DurationMin \/ vdata[1].data.duration.value > DurationMax
    => /\ ~vresult[1].valid
       /\ DurationRangeError \in Range(vresult[1].errors)
====
